---------------------------- MODULE Spec2Model ----------------------------
(***************************************************************************)
(* Model of the synchronisation pipeline of Exams-Viewer                   *)
(* (scripts/scraper.py): the change detector (needs_update,                *)
(* calculate_question_hash), the reconciliation loop (scrape_questions)    *)
(* that merges freshly scraped questions into the persisted exam.json,     *)
(* the link discovery (get_question_links) that keeps links.json, and the  *)
(* update of one exam (update_exam_data, update_single_exam) that runs     *)
(* the two in turn and reports the result; of the chunk creation           *)
(* (create_chunks_for_exam_data, scripts/create_chunks.py); of the answer  *)
(* resolution of scrape_page; and of the manifest generation               *)
(* (scripts/update_manifest.py).                                           *)
(*                                                                         *)
(* A link is modelled by the number embedded in it ("...question-<n>..."), *)
(* a scraped page by the fields scrape_page extracts from it.              *)
(***************************************************************************)
EXTENDS Integers, Sequences, FiniteSets, TLC

(***************************************************************************)
(* Bounds and universes                                                    *)
(***************************************************************************)
\* longest list of question links handed to one run of scrape_questions
MaxLinks == 2

\* Python's None (JSON null)
NoneVal == "null"

\* question_number of the placeholder scrape_page returns on a failed request
Unknown == 0

\* float('inf'), the sort key of a question_number that is not all digits
Infinity == 1000000

\* The remote answers a request for a question page with one of these, or not
\* at all.  Page "p0c" differs from "p0" in the comments only.
NoResponse == "no response"

PageFields ==
  [ p0  |-> [question |-> "Q", answers |-> <<"a", "b">>, most_voted |-> NoneVal,
             comments |-> <<>>, images |-> "{}"],
    p0c |-> [question |-> "Q", answers |-> <<"a", "b">>, most_voted |-> NoneVal,
             comments |-> <<"c1">>, images |-> "{}"],
    p1  |-> [question |-> "Q", answers |-> <<"a", "b">>, most_voted |-> "A",
             comments |-> <<>>, images |-> "{}"] ]

\* What the remote may answer for the page of each question: the votes of both
\* questions come and go, the comments of question 1 change as well.
RemotePages == (1 :> {"p0", "p0c", "p1"}) @@ (2 :> {"p0", "p1"})

\* the question numbers that occur in links
QuestionNumbers == DOMAIN RemotePages

\* the answers to one request: a page, or none
Answers(link) == RemotePages[link] \cup {NoResponse}

(***************************************************************************)
(* State                                                                   *)
(***************************************************************************)
VARIABLES
  exam_json,        \* the persisted exam.json: status, error, questions
  pc,               \* position of scrape_questions: idle, loop, done
  question_links,   \* argument: the links of this run
  force_update,     \* argument
  rapid_scraping,   \* argument
  loaded_questions, \* local: the questions as load_json returned them
  questions,        \* local: the list being merged
  i,                \* local: 1-based index of the next link
  error_string,     \* local
  updated_count,    \* local
  new_count,        \* local
  skipped_count,    \* local
  pre_exam_json,    \* history: exam.json when the run started
  fetch_log,        \* history: one entry per scrape_page call of the run
  sleeps,           \* history: the loop indices after which the run slept
  prev_pages,       \* history: the pages the previous run fetched, while this
                    \* run repeats it (same links, same answers), else <<>>
  existing_question,  \* needs_update: first argument
  new_question,       \* needs_update: second argument
  update_needed,      \* needs_update: the pair it returned, <<>> before the call
  links_json,       \* the persisted links.json: page_num, status, links
  dpc,              \* position of get_question_links: idle, scan, returned, raised
  force_rescan,     \* argument
  num_pages,        \* local: the page count read from the page indicator
  page_i,           \* local: the loop variable i, the listing page to request next
  links_found,      \* local: the list question_links being collected
  links_returned,   \* the list get_question_links returned
  exception,        \* the message of the exception it raised, "" if none
  pre_links_json,   \* history: links.json when the call started
  scan_log,         \* history: one entry per listing page requested by the call
  interrupted_after,  \* history: the pages the previous call had requested when
                      \* it was interrupted, 0 if it was not
  result,           \* what update_single_exam returned, <<>> before it returns
  chunks_dir,       \* the files chunks/chunk_<id>.json, by chunk id
  metadata_json,    \* the persisted metadata.json
  cpc,              \* position of the chunk creation: idle, chunks, metadata, done
  chunk_input,      \* argument/local questions: the list being partitioned
  chunk_size,       \* argument
  total_chunks,     \* local
  chunk_id,         \* local: the loop variable
  created_chunks,   \* local
  chunk_return,     \* what the chunk creation returned, "" before it returns
  write_log,        \* history: one entry per chunk write attempted by the run
  pre_chunks_dir,   \* history: the chunk files when the run started
  pre_metadata_json,  \* history: metadata.json when the run started
  soup,             \* scrape_page: what the request for the page brought
  spc,              \* position of scrape_page: idle, returned, raised
  scraped_object,   \* the dict question_object scrape_page returned
  tiers,            \* history: the sources of most_voted the call consulted
  data_exists,      \* update_manifest.py: whether the data directory exists
  data_dir,         \* the exam directories in it, by exam code
  manifest_json,    \* the file data/manifest.json
  manifest_json_backup,  \* the file data/manifest.json.backup
  mpc,              \* position of update_manifest.py: idle, scan, generated,
                    \* backed up, saved, failed, interrupted, exit
  scanned,          \* the directories iterdir() has yielded so far
  manifest_entries, \* local of generate_manifest
  manifest,         \* the dict generate_manifest returned
  pre_manifest_json \* history: manifest.json when the script started

sync_vars == <<exam_json, pc, question_links, force_update, rapid_scraping,
               loaded_questions, questions, i, error_string, updated_count,
               new_count, skipped_count, pre_exam_json, fetch_log, sleeps, prev_pages>>

detector_vars == <<existing_question, new_question, update_needed>>

discover_vars == <<links_json, dpc, force_rescan, num_pages, page_i, links_found,
                   links_returned, exception, pre_links_json, scan_log, interrupted_after>>

chunk_vars == <<chunks_dir, metadata_json, cpc, chunk_input, chunk_size, total_chunks,
                chunk_id, created_chunks, chunk_return, write_log, pre_chunks_dir,
                pre_metadata_json>>

page_vars == <<soup, spc, scraped_object, tiers>>

\* the state of the scripts that work on the stored files, and of a call of
\* scrape_page looked at on its own
manifest_vars == <<data_exists, data_dir, manifest_json, manifest_json_backup, mpc,
                   scanned, manifest_entries, manifest, pre_manifest_json>>

script_vars == <<chunk_vars, page_vars, manifest_vars>>

vars == <<sync_vars, detector_vars, discover_vars, result, script_vars>>

\* what scrape_questions does not touch
outside_sync == <<detector_vars, discover_vars, result, script_vars>>

\* what a call of needs_update on its own does not touch
outside_detector == <<sync_vars, discover_vars, result, script_vars>>

\* what get_question_links does not touch
outside_discover == <<sync_vars, detector_vars, result, script_vars>>

\* what the chunk creation does not touch
outside_chunks == <<sync_vars, detector_vars, discover_vars, result, page_vars,
                    manifest_vars>>

\* what a call of scrape_page on its own does not touch
outside_page == <<sync_vars, detector_vars, discover_vars, result, chunk_vars,
                  manifest_vars>>

\* what update_manifest.py does not touch
outside_manifest == <<sync_vars, detector_vars, discover_vars, result, chunk_vars,
                      page_vars>>

(***************************************************************************)
(* scrape_page                                                             *)
(***************************************************************************)
\* re.search(r"question-(\d+)", link).group(1)
QuestionNumber(link) == link

\* scrape_page(link), given what the remote answered
ScrapePage(link, page) ==
  IF page = NoResponse
  THEN [question |-> "", answers |-> <<>>, comments |-> <<>>, most_voted |-> NoneVal,
        link |-> link, question_number |-> Unknown, images |-> "{}",
        error |-> "Request or parsing failed"]
  ELSE [question |-> PageFields[page].question, answers |-> PageFields[page].answers,
        comments |-> PageFields[page].comments,
        most_voted |-> PageFields[page].most_voted,
        link |-> link, question_number |-> QuestionNumber(link),
        images |-> PageFields[page].images, error |-> NoneVal]

(***************************************************************************)
(* calculate_question_hash, needs_update                                   *)
(***************************************************************************)
\* RelevantJson, had the comments been left in the hashed data
RelevantJsonWithComments(question_data) ==
  <<"answers", question_data.answers, "comments", question_data.comments,
    "most_voted", question_data.most_voted, "question", question_data.question>>

\* json.dumps(relevant_data, sort_keys=True): the three fields, keys in sorted order
RelevantJson(question_data) ==
  <<"answers", question_data.answers, "most_voted", question_data.most_voted,
    "question", question_data.question>>

\* md5 of the JSON text; the digest is taken to be collision-free on the texts
\* of the model, so it is represented by the text it digests
CalculateQuestionHash(question_data) == <<"md5", RelevantJson(question_data)>>

\* NeedsUpdate, had case 2 been tested before case 1
NeedsUpdateChangedFirst(existing, new) ==
  IF existing.most_voted # new.most_voted
  THEN <<TRUE, "most_voted changed">>
  ELSE IF existing.most_voted = NoneVal /\ new.most_voted # NoneVal
  THEN <<TRUE, "most_voted was null, now has value">>
  ELSE IF existing.question # new.question
  THEN <<TRUE, "question content changed">>
  ELSE IF existing.answers # new.answers
  THEN <<TRUE, "answers changed">>
  ELSE <<FALSE, "no changes detected">>

\* NeedsUpdate, had it reported a change for every pair
NeedsUpdateAlways(existing, new) == <<TRUE, "content hash changed">>

NeedsUpdate(existing, new) ==
  IF existing.most_voted = NoneVal /\ new.most_voted # NoneVal
  THEN <<TRUE, "most_voted was null, now has value">>
  ELSE IF existing.most_voted # new.most_voted
  THEN <<TRUE, "most_voted changed">>
  ELSE IF existing.question # new.question
  THEN <<TRUE, "question content changed">>
  ELSE IF existing.answers # new.answers
  THEN <<TRUE, "answers changed">>
  ELSE IF CalculateQuestionHash(existing) # CalculateQuestionHash(new)
  THEN <<TRUE, "content hash changed">>
  ELSE <<FALSE, "no changes detected">>

(***************************************************************************)
(* scrape_questions                                                        *)
(***************************************************************************)
\* load_json(json_path).get("questions", []) ; a missing file loads as {}
LoadQuestions(file) == IF file.exists THEN file.questions ELSE <<>>

\* {q["question_number"]: q for q in questions}: a later question overwrites
\* an earlier one with the same number
ExistingQuestionsDict(qs) ==
  [n \in {qs[j].question_number : j \in DOMAIN qs} |->
     qs[CHOOSE j \in DOMAIN qs :
          /\ qs[j].question_number = n
          /\ \A k \in DOMAIN qs : qs[k].question_number = n => k <= j]]

\* for j, q in enumerate(questions): if q["question_number"] == n: questions[j] = new; break
ReplaceFirst(qs, n, new) ==
  IF \E j \in DOMAIN qs : qs[j].question_number = n
  THEN LET first == CHOOSE j \in DOMAIN qs :
                      /\ qs[j].question_number = n
                      /\ \A k \in DOMAIN qs : qs[k].question_number = n => j <= k
       IN [qs EXCEPT ![first] = new]
  ELSE qs

\* SortQuestions, had the list been saved in the order of the merge
SortQuestionsSkipped(s) == s

\* key=lambda x: int(x["question_number"]) if x["question_number"].isdigit() else inf
SortKey(q) == IF q.question_number = Unknown THEN Infinity ELSE q.question_number

\* list.sort is stable: x goes after every element whose key is not larger
InsertSorted(s, x) ==
  LET k == Cardinality({j \in DOMAIN s : SortKey(s[j]) <= SortKey(x)})
  IN SubSeq(s, 1, k) \o <<x>> \o SubSeq(s, k + 1, Len(s))

RECURSIVE SortQuestions(_)
SortQuestions(s) ==
  IF s = <<>> THEN <<>>
  ELSE InsertSorted(SortQuestions(SubSeq(s, 1, Len(s) - 1)), s[Len(s)])

\* status = "complete" if len(questions) == questions_num else "in progress"
StatusOf(qs, questions_num) ==
  IF Len(qs) = questions_num THEN "complete" ELSE "in progress"

\* sorted(question_links, key=number): what get_question_links hands over; a
\* number occurs twice when its link is listed on two pages
RECURSIVE SortedLinks(_)
SortedLinks(n) ==
  IF n = 0 THEN {<<>>}
  ELSE LET shorter == SortedLinks(n - 1)
       IN shorter \cup
          {Append(s, l) : s \in {t \in shorter : Len(t) = n - 1}, l \in QuestionNumbers}

LinkLists ==
  {s \in SortedLinks(MaxLinks) :
     /\ Len(s) >= 1
     /\ \A j \in 1..(Len(s) - 1) : s[j] <= s[j + 1]}

\* existing_questions_dict = {q["question_number"]: q for q in questions},
\* built once before the loop from the loaded list
existing_questions_dict == ExistingQuestionsDict(loaded_questions)

\* entry to scrape_questions, up to the loop
ScrapeQuestionsStart(links, rapid, force) ==
  /\ pc' = "loop"
  /\ question_links' = links
  /\ rapid_scraping' = rapid
  /\ force_update' = force
  /\ loaded_questions' = LoadQuestions(exam_json)
  /\ questions' = LoadQuestions(exam_json)
  /\ i' = 1
  /\ error_string' = ""
  /\ updated_count' = 0
  /\ new_count' = 0
  /\ skipped_count' = 0
  /\ pre_exam_json' = exam_json
  /\ fetch_log' = <<>>
  /\ sleeps' = <<>>
  /\ UNCHANGED exam_json
  /\ UNCHANGED outside_sync

\* after the loop: questions.sort, status, save_json
SaveQuestions(qs, err) ==
  LET sorted == SortQuestions(qs)
  IN /\ questions' = sorted
     /\ exam_json' = [exists |-> TRUE,
                      status |-> StatusOf(sorted, Len(question_links)),
                      error |-> err,
                      questions |-> sorted]
     /\ pc' = "done"

\* the end of a loop iteration that did not break: the pacing sleep, then the
\* next link, or the end of the run after the last one
NextLink(qs) ==
  /\ sleeps' = IF rapid_scraping THEN sleeps ELSE Append(sleeps, i)
  /\ i' = i + 1
  /\ IF i + 1 > Len(question_links)
     THEN SaveQuestions(qs, error_string)
     ELSE /\ questions' = qs
          /\ pc' = "loop"
          /\ UNCHANGED exam_json
  /\ UNCHANGED error_string

\* Break, had the loop gone on to the next link after a failed scrape
BreakAndGoOn(failed) ==
  /\ error_string' = "Error: " \o failed.error
  /\ i' = i + 1
  /\ IF i + 1 > Len(question_links)
     THEN SaveQuestions(questions, "Error: " \o failed.error)
     ELSE /\ questions' = questions
          /\ pc' = "loop"
          /\ UNCHANGED exam_json
  /\ UNCHANGED <<updated_count, new_count, skipped_count, sleeps>>

\* Break, had the placeholder of the failed scrape been kept in the list
BreakKeepingPlaceholder(failed) ==
  /\ error_string' = "Error: " \o failed.error
  /\ SaveQuestions(Append(questions, failed), "Error: " \o failed.error)
  /\ UNCHANGED <<updated_count, new_count, skipped_count, i, sleeps>>

\* the break on a failed scrape, and the end of the run
Break(failed) ==
  /\ error_string' = "Error: " \o failed.error
  /\ SaveQuestions(questions, "Error: " \o failed.error)
  /\ UNCHANGED <<updated_count, new_count, skipped_count, i, sleeps>>

\* the run still repeats the previous one if this answer is the previous one
TrackRepeat(page) ==
  prev_pages' = IF prev_pages # <<>> /\ prev_pages[i] = page THEN prev_pages ELSE <<>>

\* one iteration, branch "existing_question and not force_update"
CheckExisting(page) ==
  /\ pc = "loop"
  /\ page \in Answers(question_links[i])
  /\ QuestionNumber(question_links[i]) \in DOMAIN existing_questions_dict
  /\ ~force_update
  /\ LET link == question_links[i]
         question_number == QuestionNumber(link)
         existing == existing_questions_dict[question_number]
         fetched == ScrapePage(link, page)
         needed == NeedsUpdate(existing, fetched)[1]
     IN IF fetched.error # NoneVal
        THEN /\ Break(fetched)
             /\ fetch_log' = Append(fetch_log,
                                    [link |-> link, page |-> page, kind |-> "error"])
        ELSE /\ IF needed
                THEN /\ NextLink(ReplaceFirst(questions, question_number, fetched))
                     /\ updated_count' = updated_count + 1
                     /\ UNCHANGED skipped_count
                ELSE /\ NextLink(questions)
                     /\ skipped_count' = skipped_count + 1
                     /\ UNCHANGED updated_count
             /\ fetch_log' = Append(fetch_log,
                                    [link |-> link, page |-> page,
                                     kind |-> IF needed THEN "updated" ELSE "skipped"])
             /\ UNCHANGED new_count
  /\ TrackRepeat(page)
  /\ UNCHANGED <<question_links, force_update, rapid_scraping, loaded_questions,
                 pre_exam_json>>
  /\ UNCHANGED outside_sync

\* one iteration, branch "new question or force_update enabled"
ScrapeNew(page) ==
  /\ pc = "loop"
  /\ page \in Answers(question_links[i])
  /\ \/ QuestionNumber(question_links[i]) \notin DOMAIN existing_questions_dict
     \/ force_update
  /\ LET link == question_links[i]
         question_number == QuestionNumber(link)
         existing == question_number \in DOMAIN existing_questions_dict
         question_object == ScrapePage(link, page)
     IN IF question_object.error # NoneVal
        THEN /\ Break(question_object)
             /\ fetch_log' = Append(fetch_log,
                                    [link |-> link, page |-> page, kind |-> "error"])
        ELSE /\ IF existing
                THEN /\ NextLink(ReplaceFirst(questions, question_number, question_object))
                     /\ updated_count' = updated_count + 1
                     /\ UNCHANGED new_count
                ELSE /\ NextLink(Append(questions, question_object))
                     /\ new_count' = new_count + 1
                     /\ UNCHANGED updated_count
             /\ fetch_log' = Append(fetch_log,
                                    [link |-> link, page |-> page,
                                     kind |-> IF existing THEN "replaced" ELSE "new"])
             /\ UNCHANGED skipped_count
  /\ TrackRepeat(page)
  /\ UNCHANGED <<question_links, force_update, rapid_scraping, loaded_questions,
                 pre_exam_json>>
  /\ UNCHANGED outside_sync

(***************************************************************************)
(* get_question_links                                                      *)
(***************************************************************************)
\* what one listing page lists for the exam: at most one question link
Listings == {<<>>} \cup {<<n>> : n \in QuestionNumbers}

\* the most pages the page indicator announces; with one link to a page the
\* crawl collects at most MaxLinks links
MaxPages == MaxLinks

\* the ValueErrors raised before the first listing page is scanned, and the
\* NameError of line 180 when the loop body never ran
DiscoveryErrors ==
  {"Exam code not found.", "Robots.txt disallows scraping",
   "Failed to access the website",
   "Page indicator not found. Page structure may have changed."}

NameError == "name 'i' is not defined"

NoLinksFile == [exists |-> FALSE, page_num |-> 1, status |-> "", links |-> <<>>]

\* sorted(question_links, key=number) is stable
InsertLink(s, x) ==
  LET k == Cardinality({j \in DOMAIN s : s[j] <= x})
  IN SubSeq(s, 1, k) \o <<x>> \o SubSeq(s, k + 1, Len(s))

RECURSIVE SortLinks(_)
SortLinks(s) ==
  IF s = <<>> THEN <<>>
  ELSE InsertLink(SortLinks(SubSeq(s, 1, Len(s) - 1)), s[Len(s)])

\* the locals of get_question_links while it is not running
NoDiscovery ==
  /\ force_rescan = FALSE
  /\ num_pages = 0
  /\ page_i = 0
  /\ links_found = <<>>
  /\ links_returned = <<>>
  /\ exception = ""
  /\ scan_log = <<>>

\* the call raises before it reads links.json
DiscoverRaises(force, why) ==
  /\ dpc = "idle"
  /\ dpc' = "raised"
  /\ force_rescan' = force
  /\ exception' = why
  /\ pre_links_json' = links_json
  /\ UNCHANGED <<links_json, num_pages, page_i, links_found, links_returned, scan_log,
                 interrupted_after>>
  /\ UNCHANGED outside_discover

\* the call up to the loop, the page indicator announcing n pages: it returns
\* the persisted links of a complete links.json unless force_rescan
DiscoverStart(force, n) ==
  /\ dpc = "idle"
  /\ force_rescan' = force
  /\ num_pages' = n
  /\ pre_links_json' = links_json
  /\ LET resumed == links_json.exists /\ ~force
         page_num == IF resumed THEN links_json.page_num ELSE 1
         found == IF resumed THEN links_json.links ELSE <<>>
     IN IF resumed /\ links_json.status = "complete"
        THEN /\ dpc' = "returned"
             /\ links_returned' = links_json.links
             /\ links_found' = found
             /\ UNCHANGED <<page_i, exception>>
        ELSE IF page_num > n
        THEN /\ dpc' = "raised"
             /\ exception' = NameError
             /\ links_found' = found
             /\ UNCHANGED <<page_i, links_returned>>
        ELSE /\ dpc' = "scan"
             /\ page_i' = page_num
             /\ links_found' = found
             /\ UNCHANGED <<links_returned, exception>>
  /\ UNCHANGED <<links_json, scan_log, interrupted_after>>
  /\ UNCHANGED outside_discover

\* after the loop: sort, save links.json, return
SaveLinks(found) ==
  LET sorted_links == SortLinks(found)
  IN /\ links_json' = [exists |-> TRUE, page_num |-> page_i, status |-> "complete",
                       links |-> sorted_links]
     /\ links_returned' = sorted_links
     /\ links_found' = found
     /\ dpc' = "returned"
     /\ UNCHANGED page_i

\* NextPage, had the links collected so far been saved after every page
NextPageSavingProgress(found) ==
  IF page_i = num_pages
  THEN SaveLinks(found)
  ELSE /\ page_i' = page_i + 1
       /\ links_found' = found
       /\ links_json' = [exists |-> TRUE, page_num |-> page_i,
                         status |-> "in progress", links |-> found]
       /\ UNCHANGED <<dpc, links_returned>>

\* the end of a loop iteration: the next page, or the end of the sweep
NextPage(found) ==
  IF page_i = num_pages
  THEN SaveLinks(found)
  ELSE /\ page_i' = page_i + 1
       /\ links_found' = found
       /\ UNCHANGED <<links_json, dpc, links_returned>>

\* one iteration whose request was answered with a page listing these links
ScanPage(listed) ==
  /\ dpc = "scan"
  /\ scan_log' = Append(scan_log, [page |-> page_i, ok |-> TRUE, listed |-> listed])
  /\ NextPage(links_found \o listed)
  /\ UNCHANGED <<force_rescan, num_pages, exception, pre_links_json, interrupted_after>>
  /\ UNCHANGED outside_discover

\* SkipPage, had a failed page request ended the crawl
SkipPageAborts ==
  /\ dpc = "scan"
  /\ scan_log' = Append(scan_log, [page |-> page_i, ok |-> FALSE, listed |-> <<>>])
  /\ SaveLinks(links_found)
  /\ UNCHANGED <<force_rescan, num_pages, exception, pre_links_json, interrupted_after>>
  /\ UNCHANGED outside_discover

\* one iteration whose request failed: continue
SkipPage ==
  /\ dpc = "scan"
  /\ scan_log' = Append(scan_log, [page |-> page_i, ok |-> FALSE, listed |-> <<>>])
  /\ NextPage(links_found)
  /\ UNCHANGED <<force_rescan, num_pages, exception, pre_links_json, interrupted_after>>
  /\ UNCHANGED outside_discover

\* the process is stopped between two page requests
Interrupt ==
  /\ dpc = "scan"
  /\ dpc' = "idle"
  /\ interrupted_after' = Len(scan_log)
  /\ force_rescan' = FALSE
  /\ num_pages' = 0
  /\ page_i' = 0
  /\ links_found' = <<>>
  /\ links_returned' = <<>>
  /\ exception' = ""
  /\ scan_log' = <<>>
  /\ UNCHANGED <<links_json, pre_links_json>>
  /\ UNCHANGED outside_discover

\* the call has returned or raised and the caller is done with it
DiscoverReturn ==
  /\ dpc \in {"returned", "raised"}
  /\ dpc' = "idle"
  /\ interrupted_after' = 0
  /\ force_rescan' = FALSE
  /\ num_pages' = 0
  /\ page_i' = 0
  /\ links_found' = <<>>
  /\ links_returned' = <<>>
  /\ exception' = ""
  /\ scan_log' = <<>>
  /\ pre_links_json' = links_json
  /\ UNCHANGED links_json
  /\ UNCHANGED outside_discover

DiscoverInit ==
  /\ links_json = NoLinksFile
  /\ pre_links_json = NoLinksFile
  /\ dpc = "idle"
  /\ interrupted_after = 0
  /\ NoDiscovery

(***************************************************************************)
(* create_chunks_for_exam_data (scraper.py), create_chunks_for_exam        *)
(* (create_chunks.py): the partition of a list of questions into chunks    *)
(***************************************************************************)
\* longest list of questions handed to the chunk creation
MaxQuestions == 5

\* largest chunk_size tried
MaxChunkSize == 3

\* the ids a chunk file can have: at most one chunk per question
ChunkIds == 0..(MaxQuestions - 1)

\* the lists partitioned on their own: questions stand for themselves by a
\* number, in ascending and in descending order
RECURSIVE Ascending1(_)
Ascending1(n) == IF n = 0 THEN <<>> ELSE Append(Ascending1(n - 1), n)

Reversed(s) == [j \in 1..Len(s) |-> s[Len(s) + 1 - j]]

QuestionLists ==
  {Ascending1(n) : n \in 0..MaxQuestions} \cup
  {Reversed(Ascending1(n)) : n \in 0..MaxQuestions}

NoChunk ==
  [exists |-> FALSE, readable |-> FALSE, chunk_id |-> 0, start_question |-> 0,
   end_question |-> 0, questions_count |-> 0, questions |-> <<>>]

\* a chunk file that was opened for writing and not written out
CutOffChunk == [NoChunk EXCEPT !.exists = TRUE]

NoMetadata ==
  [exists |-> FALSE, readable |-> FALSE, chunked |-> FALSE, chunk_size |-> 0,
   total_chunks |-> 0, total_questions |-> 0, created_chunks |-> <<>>]

CutOffMetadata == [NoMetadata EXCEPT !.exists = TRUE]

\* what a write to a file comes to: save_json writes it, fails to open it, or
\* fails after it has opened (and so emptied) it
WriteOutcomes == {"written", "not opened", "cut off"}

\* Ceil, had the division been rounded down
CeilRoundedDown(n, d) == n \div d

\* math.ceil(n / d)
Ceil(n, d) == IF n % d = 0 THEN n \div d ELSE n \div d + 1

\* ChunkData, had the slice of every chunk started at the chunk id
ChunkDataFromId(qs, id, size) ==
  LET start_idx == id
      end_idx == IF start_idx + size < Len(qs) THEN start_idx + size ELSE Len(qs)
      chunk_questions == SubSeq(qs, start_idx + 1, end_idx)
  IN [exists |-> TRUE, readable |-> TRUE, chunk_id |-> id,
      start_question |-> start_idx + 1, end_question |-> end_idx,
      questions_count |-> Len(chunk_questions), questions |-> chunk_questions]

\* chunk_data of chunk id: the slice questions[start_idx:end_idx] and its tags
ChunkData(qs, id, size) ==
  LET start_idx == id * size
      end_idx == IF start_idx + size < Len(qs) THEN start_idx + size ELSE Len(qs)
      chunk_questions == SubSeq(qs, start_idx + 1, end_idx)
  IN [exists |-> TRUE, readable |-> TRUE, chunk_id |-> id,
      start_question |-> start_idx + 1, end_question |-> end_idx,
      questions_count |-> Len(chunk_questions), questions |-> chunk_questions]

\* total_questions = len(questions)
total_questions == Len(chunk_input)

\* the locals while no chunk creation is running
NoChunking ==
  /\ chunk_input = <<>>
  /\ chunk_size = 0
  /\ total_chunks = 0
  /\ chunk_id = 0
  /\ created_chunks = <<>>
  /\ chunk_return = ""
  /\ write_log = <<>>

\* entry, up to the loop: no chunking when the questions fit in one chunk
ChunkStart(qs, size) ==
  /\ cpc = "idle"
  /\ chunk_input' = qs
  /\ chunk_size' = size
  /\ pre_chunks_dir' = chunks_dir
  /\ pre_metadata_json' = metadata_json
  /\ chunk_id' = 0
  /\ created_chunks' = <<>>
  /\ write_log' = <<>>
  /\ IF Len(qs) <= size
     THEN /\ cpc' = "done"
          /\ chunk_return' = "False"
          /\ total_chunks' = 0
     ELSE /\ cpc' = "chunks"
          /\ chunk_return' = ""
          /\ total_chunks' = Ceil(Len(qs), size)
  /\ UNCHANGED <<chunks_dir, metadata_json>>

\* the file a write leaves behind
Written(old, new, cut_off, outcome) ==
  IF outcome = "written" THEN new
  ELSE IF outcome = "cut off" THEN cut_off
  ELSE old

\* WriteChunk, had the loop been left at the first failed write
WriteChunkStopsOnFailure(outcome) ==
  /\ cpc = "chunks"
  /\ outcome \in WriteOutcomes
  /\ chunks_dir' = [chunks_dir EXCEPT ![chunk_id] =
                      Written(@, ChunkData(chunk_input, chunk_id, chunk_size),
                              CutOffChunk, outcome)]
  /\ created_chunks' = IF outcome = "written" THEN Append(created_chunks, chunk_id)
                       ELSE created_chunks
  /\ write_log' = Append(write_log, [chunk_id |-> chunk_id, ok |-> outcome = "written"])
  /\ chunk_id' = chunk_id + 1
  /\ cpc' = IF chunk_id + 1 = total_chunks \/ outcome # "written"
            THEN "metadata" ELSE "chunks"
  /\ UNCHANGED <<metadata_json, chunk_input, chunk_size, total_chunks, chunk_return,
                 pre_chunks_dir, pre_metadata_json>>
  /\ UNCHANGED outside_chunks

\* one iteration of the loop over range(total_chunks)
WriteChunk(outcome) ==
  /\ cpc = "chunks"
  /\ outcome \in WriteOutcomes
  /\ chunks_dir' = [chunks_dir EXCEPT ![chunk_id] =
                      Written(@, ChunkData(chunk_input, chunk_id, chunk_size),
                              CutOffChunk, outcome)]
  /\ created_chunks' = IF outcome = "written" THEN Append(created_chunks, chunk_id)
                       ELSE created_chunks
  /\ write_log' = Append(write_log, [chunk_id |-> chunk_id, ok |-> outcome = "written"])
  /\ chunk_id' = chunk_id + 1
  /\ cpc' = IF chunk_id + 1 = total_chunks THEN "metadata" ELSE "chunks"
  /\ UNCHANGED <<metadata_json, chunk_input, chunk_size, total_chunks, chunk_return,
                 pre_chunks_dir, pre_metadata_json>>
  /\ UNCHANGED outside_chunks

\* Metadata, had created_chunks been taken to be the full range
MetadataAssumingAllCreated(size, total, count, created) ==
  [exists |-> TRUE, readable |-> TRUE, chunked |-> TRUE, chunk_size |-> size,
   total_chunks |-> total, total_questions |-> count,
   created_chunks |-> [j \in 1..total |-> j - 1]]

\* the metadata dict
Metadata(size, total, count, created) ==
  [exists |-> TRUE, readable |-> TRUE, chunked |-> TRUE, chunk_size |-> size,
   total_chunks |-> total, total_questions |-> count, created_chunks |-> created]

\* after the loop: save the metadata, return
WriteMetadata(outcome) ==
  /\ cpc = "metadata"
  /\ outcome \in WriteOutcomes
  /\ metadata_json' = Written(metadata_json,
                              Metadata(chunk_size, total_chunks, total_questions,
                                       created_chunks),
                              CutOffMetadata, outcome)
  /\ chunk_return' = IF outcome = "written" THEN "created" ELSE "False"
  /\ cpc' = "done"
  /\ UNCHANGED <<chunks_dir, chunk_input, chunk_size, total_chunks, chunk_id,
                 created_chunks, write_log, pre_chunks_dir, pre_metadata_json>>
  /\ UNCHANGED outside_chunks

\* the chunk creation has returned
ChunkReturn ==
  /\ cpc = "done"
  /\ cpc' = "idle"
  /\ chunk_input' = <<>>
  /\ chunk_size' = 0
  /\ total_chunks' = 0
  /\ chunk_id' = 0
  /\ created_chunks' = <<>>
  /\ chunk_return' = ""
  /\ write_log' = <<>>
  /\ pre_chunks_dir' = chunks_dir
  /\ pre_metadata_json' = metadata_json
  /\ UNCHANGED <<chunks_dir, metadata_json>>
  /\ UNCHANGED outside_chunks

\* create_chunks_for_exam_data(exam_code, questions, chunk_size)
CreateChunksForExamData(qs, size) ==
  /\ ChunkStart(qs, size)
  /\ UNCHANGED outside_chunks

ChunkInit ==
  /\ chunks_dir = [id \in ChunkIds |-> NoChunk]
  /\ metadata_json = NoMetadata
  /\ pre_chunks_dir = [id \in ChunkIds |-> NoChunk]
  /\ pre_metadata_json = NoMetadata
  /\ cpc = "idle"
  /\ NoChunking

(***************************************************************************)
(* scrape_page: from the page to the dict                                  *)
(***************************************************************************)
\* most votes one option of the tally has
MaxVotes == 1

\* most options in the tally
MaxTally == 2

\* the link of the page
PageLink == 1

\* the items of the JSON in div.voted-answers-tally; voted_answers is NoneVal
\* in an item without that key, for which .get("voted_answers", None) is None
VotedItems ==
  [is_most_voted : BOOLEAN, vote_count : 0..MaxVotes, voted_answers : {NoneVal, "A", "B"}]

VotedJsons == UNION {[1..n -> VotedItems] : n \in 0..MaxTally}

\* src of the image in the question body: none, one that can be resolved, one
\* that urljoin rejects with ValueError (Invalid IPv6 URL)
ImageSources == {"", "/img.png", "ftp://[img.png"}

\* respectful_request returned None, or BeautifulSoup could not parse
NoSoup ==
  [response |-> "none", tally |-> "absent", voted_json |-> <<>>,
   suggested_answer |-> NoneVal, img_src |-> ""]

\* What a request may bring.  tally: the div.voted-answers-tally is absent,
\* its script is not JSON, or it is the list voted_json.  suggested_answer: the
\* text of span.correct-answer, NoneVal when there is no such span.
Soups ==
  {NoSoup}
  \cup { [response |-> "ok", tally |-> "json", voted_json |-> v,
          suggested_answer |-> sa, img_src |-> src] :
         v \in VotedJsons, sa \in {NoneVal, "C"}, src \in ImageSources }
  \cup { [response |-> "ok", tally |-> t, voted_json |-> <<>>,
          suggested_answer |-> sa, img_src |-> src] :
         t \in {"absent", "malformed"}, sa \in {NoneVal, "C"}, src \in ImageSources }

Least(S) == CHOOSE x \in S : \A y \in S : x <= y

\* next((item for item in voted_json if item.get('is_most_voted')), None):
\* the index of the item, 0 for None
MostVotedObject(voted_json) ==
  IF \E k \in DOMAIN voted_json : voted_json[k].is_most_voted
  THEN Least({k \in DOMAIN voted_json : voted_json[k].is_most_voted})
  ELSE 0

\* sorted(voted_json, key=vote_count, reverse=True)[0]: the index of the first
\* of the items with the most votes (the sort is stable)
TopAnswer(voted_json) ==
  Least({k \in DOMAIN voted_json :
           \A j \in DOMAIN voted_json : voted_json[j].vote_count <= voted_json[k].vote_count})

\* most_voted after the try block on the tally; json.loads raising leaves None
VotedAnswer(s) ==
  IF s.tally # "json"
  THEN NoneVal
  ELSE IF MostVotedObject(s.voted_json) # 0
  THEN s.voted_json[MostVotedObject(s.voted_json)].voted_answers
  ELSE IF s.voted_json # <<>> /\ s.voted_json[TopAnswer(s.voted_json)].vote_count > 0
  THEN s.voted_json[TopAnswer(s.voted_json)].voted_answers
  ELSE NoneVal

\* most_voted as returned: the suggested answer when the tally gave None
MostVoted(s) ==
  IF VotedAnswer(s) = NoneVal THEN s.suggested_answer ELSE VotedAnswer(s)

\* the sources the code looks at, in the order it does: 1 the flagged item,
\* 2 the item with the most votes, 3 the suggested answer
TiersConsulted(s) ==
  (IF s.tally # "json" THEN <<>>
   ELSE IF MostVotedObject(s.voted_json) # 0 THEN <<1>> ELSE <<1, 2>>)
  \o (IF VotedAnswer(s) = NoneVal THEN <<3>> ELSE <<>>)

\* extract_and_process_images raises when urljoin rejects the src
ImagesRaise(s) == s.img_src = "ftp://[img.png"

\* the images dict, as text
ExtractAndProcessImages(s) == IF s.img_src = "" THEN "{}" ELSE "{img}"

NoScrapedObject ==
  [question |-> "", answers |-> <<>>, comments |-> <<>>, most_voted |-> NoneVal,
   link |-> 0, question_number |-> Unknown, images |-> "{}", error |-> NoneVal]

\* the request or the parsing failed: the placeholder is returned
ScrapePageFails ==
  /\ spc = "idle"
  /\ soup.response = "none"
  /\ spc' = "returned"
  /\ scraped_object' = ScrapePage(PageLink, NoResponse)
  /\ tiers' = <<>>
  /\ UNCHANGED soup
  /\ UNCHANGED outside_page

\* the exception of extract_and_process_images, called outside every try,
\* leaves scrape_page
ScrapePageRaises ==
  /\ spc = "idle"
  /\ soup.response = "ok"
  /\ ImagesRaise(soup)
  /\ spc' = "raised"
  /\ UNCHANGED <<soup, scraped_object, tiers>>
  /\ UNCHANGED outside_page

\* the fields are extracted, each in its own try, and the dict is returned
ScrapePageReturns ==
  /\ spc = "idle"
  /\ soup.response = "ok"
  /\ ~ImagesRaise(soup)
  /\ spc' = "returned"
  /\ scraped_object' =
       [question |-> "Q", answers |-> <<"a", "b">>, comments |-> <<"c1">>,
        most_voted |-> MostVoted(soup), link |-> PageLink,
        question_number |-> QuestionNumber(PageLink),
        images |-> ExtractAndProcessImages(soup), error |-> NoneVal]
  /\ tiers' = TiersConsulted(soup)
  /\ UNCHANGED soup
  /\ UNCHANGED outside_page

\* no call of scrape_page looked at on its own
PageInit ==
  /\ soup = NoSoup
  /\ spc = "idle"
  /\ scraped_object = NoScrapedObject
  /\ tiers = <<>>

(***************************************************************************)
(* update_manifest.py: generate_manifest, save_manifest                    *)
(***************************************************************************)
\* number of exam codes; a code is modelled by its rank in the order of the
\* code strings (no code starts with '.')
MaxExams == 2

\* most questions in one exam.json
MaxCount == 2

ExamCodes == 1..MaxExams

\* An entry of the data directory under the name of an exam code: nothing, a
\* directory without exam.json, one whose exam.json json.load rejects, or one
\* whose exam.json holds `count` questions.
ExamDirs ==
  { [kind |-> k, count |-> 0] : k \in {"absent", "no exam.json", "corrupt"} }
  \cup { [kind |-> "readable", count |-> n] : n \in 0..MaxCount }

NoEntry == [code |-> 0, name |-> 0, questionCount |-> 0]

\* scan_exam_directory(exam_path): the manifest entry, NoEntry for None
ScanExamDirectoryKeepingEmpty(code, dir) ==
  IF dir.kind = "readable"
  THEN [code |-> code, name |-> code, questionCount |-> dir.count]
  ELSE NoEntry

ScanExamDirectory(code, dir) ==
  IF dir.kind = "no exam.json" THEN NoEntry
  ELSE IF dir.kind = "corrupt" THEN NoEntry
  ELSE IF dir.count = 0 THEN NoEntry
  ELSE [code |-> code, name |-> code, questionCount |-> dir.count]

\* list.sort(key=lambda x: x['code']): stable insertion by code
RECURSIVE InsertEntry(_, _)
InsertEntry(sorted, entry) ==
  IF sorted = <<>> THEN <<entry>>
  ELSE IF entry.code < Head(sorted).code THEN <<entry>> \o sorted
  ELSE <<Head(sorted)>> \o InsertEntry(Tail(sorted), entry)

RECURSIVE SortEntries(_)
SortEntries(entries) ==
  IF entries = <<>> THEN <<>>
  ELSE InsertEntry(SortEntries(SubSeq(entries, 1, Len(entries) - 1)),
                   entries[Len(entries)])

\* sum(entry['questionCount'] for entry in manifest_entries)
RECURSIVE SumQuestionCount(_)
SumQuestionCount(entries) ==
  IF entries = <<>> THEN 0
  ELSE Head(entries).questionCount + SumQuestionCount(Tail(entries))

\* the manifest dict (without version and the time of generation)
Manifest(entries) ==
  [totalExams |-> Len(entries), totalQuestions |-> SumQuestionCount(entries),
   exams |-> entries]

NoManifest == [totalExams |-> 0, totalQuestions |-> 0, exams |-> <<>>]

\* a manifest file: absent, holding a complete manifest, or cut off
NoManifestFile == [state |-> "absent", content |-> NoManifest]

CutOffManifestFile == [state |-> "cut off", content |-> NoManifest]

ManifestFile(m) == [state |-> "complete", content |-> m]

\* manifests of earlier runs, made when the directories held other exams
EarlierManifest ==
  Manifest(<<[code |-> MaxExams, name |-> MaxExams, questionCount |-> MaxCount]>>)

OlderManifest == Manifest(<<>>)

\* the locals before generate_manifest runs
NoGeneration ==
  /\ scanned = {}
  /\ manifest_entries = <<>>
  /\ manifest = NoManifest

\* generate_manifest returns None: there is no data directory; main exits
GenerateFails ==
  /\ mpc = "idle"
  /\ ~data_exists
  /\ mpc' = "exit"
  /\ UNCHANGED <<data_exists, data_dir, manifest_json, manifest_json_backup, scanned,
                 manifest_entries, manifest, pre_manifest_json>>
  /\ UNCHANGED outside_manifest

\* generate_manifest starts: manifest_entries = []
GenerateStart ==
  /\ mpc = "idle"
  /\ data_exists
  /\ mpc' = "scan"
  /\ scanned' = {}
  /\ manifest_entries' = <<>>
  /\ UNCHANGED <<data_exists, data_dir, manifest_json, manifest_json_backup, manifest,
                 pre_manifest_json>>
  /\ UNCHANGED outside_manifest

\* one round of the loop over data_dir.iterdir(), which yields the directories
\* in any order
ScanItem(item) ==
  /\ mpc = "scan"
  /\ item \in ExamCodes \ scanned
  /\ data_dir[item].kind # "absent"
  /\ scanned' = scanned \cup {item}
  /\ manifest_entries' =
       IF ScanExamDirectory(item, data_dir[item]) # NoEntry
       THEN Append(manifest_entries, ScanExamDirectory(item, data_dir[item]))
       ELSE manifest_entries
  /\ UNCHANGED <<data_exists, data_dir, manifest_json, manifest_json_backup, mpc,
                 manifest, pre_manifest_json>>
  /\ UNCHANGED outside_manifest

\* the loop has ended: the entries are sorted and the manifest is built;
\* validate_manifest finds every field it asks for
GenerateReturn ==
  /\ mpc = "scan"
  /\ \A item \in ExamCodes \ scanned : data_dir[item].kind = "absent"
  /\ mpc' = "generated"
  /\ manifest_entries' = SortEntries(manifest_entries)
  /\ manifest' = Manifest(SortEntries(manifest_entries))
  /\ UNCHANGED <<data_exists, data_dir, manifest_json, manifest_json_backup, scanned,
                 pre_manifest_json>>
  /\ UNCHANGED outside_manifest

\* how a copy or a write may end: done; refused by the system before the
\* target is opened (the exception is caught); or stopped after the target was
\* opened, by an exception or with the process
SaveOutcomes == {"done", "refused", "stopped", "killed"}

\* shutil.copy2(src, dst) when it runs to its end: the files <<src, dst>>
\* after it
Copy2Moving(src) == <<NoManifestFile, src>>

Copy2(src) == <<src, src>>

\* save_manifest up to the backup: nothing to do without a manifest file,
\* else the file is copied to manifest.json.backup
Backup(outcome) ==
  /\ mpc = "generated"
  /\ IF manifest_json.state = "absent"
     THEN /\ outcome = "done"
          /\ mpc' = "backed up"
          /\ UNCHANGED <<manifest_json, manifest_json_backup>>
     ELSE /\ mpc' = CASE outcome = "done" -> "backed up"
                      [] outcome = "killed" -> "interrupted"
                      [] OTHER -> "failed"
          /\ manifest_json' = IF outcome = "done" THEN Copy2(manifest_json)[1]
                              ELSE manifest_json
          /\ manifest_json_backup' =
               CASE outcome = "done" -> Copy2(manifest_json)[2]
                 [] outcome = "refused" -> manifest_json_backup
                 [] OTHER -> CutOffManifestFile
  /\ UNCHANGED <<data_exists, data_dir, scanned, manifest_entries, manifest,
                 pre_manifest_json>>
  /\ UNCHANGED outside_manifest

\* open(manifest_path, 'w') and json.dump
WriteManifest(outcome) ==
  /\ mpc = "backed up"
  /\ mpc' = CASE outcome = "done" -> "saved"
              [] outcome = "killed" -> "interrupted"
              [] OTHER -> "failed"
  /\ manifest_json' =
       CASE outcome = "done" -> ManifestFile(manifest)
         [] outcome = "refused" -> manifest_json
         [] OTHER -> CutOffManifestFile
  /\ UNCHANGED <<data_exists, data_dir, manifest_json_backup, scanned,
                 manifest_entries, manifest, pre_manifest_json>>
  /\ UNCHANGED outside_manifest

\* update_manifest.py is not running, on an empty data directory
ManifestInit ==
  /\ data_exists = TRUE
  /\ data_dir = [code \in ExamCodes |-> [kind |-> "absent", count |-> 0]]
  /\ manifest_json = NoManifestFile
  /\ manifest_json_backup = NoManifestFile
  /\ pre_manifest_json = NoManifestFile
  /\ mpc = "idle"
  /\ NoGeneration

ScriptInit == ChunkInit /\ PageInit /\ ManifestInit

(***************************************************************************)
(* The synchronisation runs                                                *)
(***************************************************************************)
\* the values of the locals while scrape_questions is not running
NoRun ==
  /\ question_links = <<>>
  /\ force_update = FALSE
  /\ rapid_scraping = FALSE
  /\ loaded_questions = <<>>
  /\ questions = <<>>
  /\ i = 1
  /\ error_string = ""
  /\ updated_count = 0
  /\ new_count = 0
  /\ skipped_count = 0
  /\ fetch_log = <<>>
  /\ sleeps = <<>>
  /\ prev_pages = <<>>

NoFile == [exists |-> FALSE, status |-> "", error |-> "", questions |-> <<>>]

\* the question dicts needs_update is called on: question and answers in two
\* versions each, most_voted absent or one of two letters, and every
\* combination of two versions of the fields the hash leaves out
QuestionDicts ==
  [question : {"Q", "Q, reworded"},
   answers : {<<"a", "b">>, <<"b", "a">>},
   most_voted : {NoneVal, "A", "B"},
   comments : {<<>>, <<"c1">>},
   link : {1, 2},
   question_number : {1},
   images : {"{}", "{img}"},
   error : {NoneVal, "Request or parsing failed"}]

NoCall ==
  /\ existing_question = <<>>
  /\ new_question = <<>>
  /\ update_needed = <<>>

SyncInit ==
  /\ exam_json = NoFile
  /\ pre_exam_json = NoFile
  /\ pc = "idle"
  /\ NoRun

NoResult == <<>>

Init ==
  /\ SyncInit
  /\ NoCall
  /\ DiscoverInit
  /\ result = NoResult
  /\ ScriptInit

\* a run over the links a (re)scan of the listing produced
FirstRun(links, rapid, force) ==
  /\ pc = "idle"
  /\ ScrapeQuestionsStart(links, rapid, force)
  /\ prev_pages' = <<>>

\* the next scheduled run after one that ended without error: the same links
\* (links.json is complete), no force_update
NextRun(rapid) ==
  /\ pc = "done"
  /\ error_string = ""
  /\ ScrapeQuestionsStart(question_links, rapid, FALSE)
  /\ prev_pages' = [j \in DOMAIN fetch_log |-> fetch_log[j].page]

\* scrape_questions has returned and its result is dropped
Return ==
  /\ pc = "done"
  /\ pc' = "idle"
  /\ question_links' = <<>>
  /\ force_update' = FALSE
  /\ rapid_scraping' = FALSE
  /\ loaded_questions' = <<>>
  /\ questions' = <<>>
  /\ i' = 1
  /\ error_string' = ""
  /\ updated_count' = 0
  /\ new_count' = 0
  /\ skipped_count' = 0
  /\ fetch_log' = <<>>
  /\ sleeps' = <<>>
  /\ prev_pages' = <<>>
  /\ pre_exam_json' = exam_json
  /\ UNCHANGED exam_json
  /\ UNCHANGED outside_sync

Next ==
  \/ \E links \in LinkLists, force \in BOOLEAN : FirstRun(links, FALSE, force)
  \/ NextRun(FALSE)
  \/ Return
  \/ \E page \in DOMAIN PageFields \cup {NoResponse} : CheckExisting(page)
  \/ \E page \in DOMAIN PageFields \cup {NoResponse} : ScrapeNew(page)

Spec == Init /\ [][Next]_vars

(***************************************************************************)
(* The change detector on its own                                          *)
(***************************************************************************)
DetectorInit ==
  /\ SyncInit
  /\ DiscoverInit
  /\ result = NoResult
  /\ ScriptInit
  /\ existing_question \in QuestionDicts
  /\ new_question \in QuestionDicts
  /\ update_needed = <<>>

\* update_needed, reason = needs_update(existing_question, new_question)
CallNeedsUpdate ==
  /\ update_needed = <<>>
  /\ update_needed' = NeedsUpdate(existing_question, new_question)
  /\ UNCHANGED <<existing_question, new_question>>
  /\ UNCHANGED outside_detector

DetectorNext == CallNeedsUpdate

SpecDetector == DetectorInit /\ [][DetectorNext]_vars

(***************************************************************************)
(* get_question_links on its own, interrupted at any page                  *)
(***************************************************************************)
DiscoverNext ==
  \/ \E force \in BOOLEAN, why \in DiscoveryErrors : DiscoverRaises(force, why)
  \/ \E force \in BOOLEAN, n \in 1..MaxPages : DiscoverStart(force, n)
  \/ \E listed \in Listings : ScanPage(listed)
  \/ SkipPage
  \/ Interrupt
  \/ DiscoverReturn

SpecDiscover == Init /\ [][DiscoverNext]_vars

(***************************************************************************)
(* update_single_exam: update_exam_data, that is get_question_links and    *)
(* then scrape_questions, and the result reported for the exam             *)
(***************************************************************************)
\* update_exam_data after scrape_questions, had it not looked at the error
ScrapedOutcomeIgnoringError(questions_obj) == <<questions_obj.questions, "", TRUE>>

\* update_exam_data after scrape_questions returned questions_obj: the triple
\* (questions, message, success)
ScrapedOutcome(questions_obj) ==
  IF questions_obj.error # ""
  THEN <<questions_obj.questions, "Error occurred while scraping questions.", FALSE>>
  ELSE <<questions_obj.questions, "", TRUE>>

\* update_single_exam, given the triple update_exam_data returned
SingleExamResult(outcome) ==
  IF ~outcome[3]
  THEN [status |-> "failed", question_count |-> Len(outcome[1]), error |-> outcome[2]]
  ELSE [status |-> "success", question_count |-> Len(outcome[1]), error |-> NoneVal]

\* get_question_links is left, by return or by exception: its locals are gone,
\* update_exam_data holds the list it returned or the exception it raised
LinksCallEnds ==
  /\ dpc \in {"returned", "raised"}
  /\ dpc' = "ended"
  /\ force_rescan' = FALSE
  /\ num_pages' = 0
  /\ page_i' = 0
  /\ links_found' = <<>>
  /\ scan_log' = <<>>
  /\ pre_links_json' = links_json
  /\ UNCHANGED <<links_json, links_returned, exception, interrupted_after>>
  /\ UNCHANGED outside_discover

\* get_question_links returned links: scrape_questions is called on them, in
\* respectful mode
UpdateScrapes(force) ==
  /\ dpc = "ended"
  /\ exception = ""
  /\ links_returned # <<>>
  /\ result = NoResult
  /\ FirstRun(links_returned, FALSE, force)

\* NoQuestionsFound, had scrape_questions been called on the empty list
NoQuestionsFoundScrapes ==
  /\ dpc = "ended"
  /\ exception = ""
  /\ links_returned = <<>>
  /\ pc = "idle"
  /\ result = NoResult
  /\ exam_json' = [exists |-> TRUE,
                   status |-> StatusOf(LoadQuestions(exam_json), 0),
                   error |-> "",
                   questions |-> SortQuestions(LoadQuestions(exam_json))]
  /\ result' = SingleExamResult(ScrapedOutcome(exam_json'))
  /\ UNCHANGED <<pc, question_links, force_update, rapid_scraping, loaded_questions,
                 questions, i, error_string, updated_count, new_count,
                 skipped_count, pre_exam_json, fetch_log, sleeps, prev_pages>>
  /\ UNCHANGED <<detector_vars, discover_vars, script_vars>>

\* get_question_links returned no link
NoQuestionsFound ==
  /\ dpc = "ended"
  /\ exception = ""
  /\ links_returned = <<>>
  /\ pc = "idle"
  /\ result = NoResult
  /\ result' = SingleExamResult(<<(<<>>), "No questions found.", FALSE>>)
  /\ UNCHANGED <<sync_vars, detector_vars, discover_vars, script_vars>>

\* get_question_links raised: except Exception as e
UpdateRaised ==
  /\ dpc = "ended"
  /\ exception # ""
  /\ result = NoResult
  /\ result' = SingleExamResult(<<(<<>>), exception, FALSE>>)
  /\ UNCHANGED <<sync_vars, detector_vars, discover_vars, script_vars>>

\* scrape_questions returned the object it saved
UpdateScraped ==
  /\ pc = "done"
  /\ result = NoResult
  /\ result' = SingleExamResult(ScrapedOutcome(exam_json))
  /\ UNCHANGED <<sync_vars, detector_vars, discover_vars, script_vars>>

\* the result is reported and the script goes on to its next update
UpdateDone ==
  /\ result # NoResult
  /\ result' = NoResult
  /\ pc' = "idle"
  /\ question_links' = <<>>
  /\ force_update' = FALSE
  /\ rapid_scraping' = FALSE
  /\ loaded_questions' = <<>>
  /\ questions' = <<>>
  /\ i' = 1
  /\ error_string' = ""
  /\ updated_count' = 0
  /\ new_count' = 0
  /\ skipped_count' = 0
  /\ fetch_log' = <<>>
  /\ sleeps' = <<>>
  /\ prev_pages' = <<>>
  /\ pre_exam_json' = exam_json
  /\ dpc' = "idle"
  /\ interrupted_after' = 0
  /\ force_rescan' = FALSE
  /\ num_pages' = 0
  /\ page_i' = 0
  /\ links_found' = <<>>
  /\ links_returned' = <<>>
  /\ exception' = ""
  /\ scan_log' = <<>>
  /\ pre_links_json' = links_json
  /\ UNCHANGED <<exam_json, links_json, detector_vars, script_vars>>

UpdateNext ==
  \/ \E force \in BOOLEAN, why \in DiscoveryErrors : DiscoverRaises(force, why)
  \/ \E force \in BOOLEAN, n \in 1..MaxPages : DiscoverStart(force, n)
  \/ \E listed \in Listings : ScanPage(listed)
  \/ SkipPage
  \/ LinksCallEnds
  \/ \E force \in BOOLEAN : UpdateScrapes(force)
  \/ \E page \in DOMAIN PageFields \cup {NoResponse} : CheckExisting(page)
  \/ \E page \in DOMAIN PageFields \cup {NoResponse} : ScrapeNew(page)
  \/ NoQuestionsFound
  \/ UpdateRaised
  \/ UpdateScraped
  \/ UpdateDone

SpecUpdate == Init /\ [][UpdateNext]_vars

(***************************************************************************)
(* scrape_questions, the process being stopped at any point                *)
(***************************************************************************)
\* exam.json after open(json_path, 'w') and before json.dump has written it
\* out: load_json answers the JSONDecodeError with {}, so that
\* .get("questions", []) is the empty list
TruncatedFile == [exists |-> TRUE, status |-> "", error |-> "", questions |-> <<>>]

\* the process is stopped before a scrape or during the sleep after one
Kill ==
  /\ pc = "loop"
  /\ pc' = "killed"
  /\ UNCHANGED <<exam_json, question_links, force_update, rapid_scraping,
                 loaded_questions, questions, i, error_string, updated_count,
                 new_count, skipped_count, pre_exam_json, fetch_log, sleeps,
                 prev_pages>>
  /\ UNCHANGED outside_sync

\* the iteration that ends the run, the process being stopped inside save_json
\* after the file was opened for writing
KilledInSaveJson(page) ==
  /\ pc = "loop"
  /\ page \in Answers(question_links[i])
  /\ \/ page = NoResponse
     \/ i = Len(question_links)
  /\ pc' = "killed"
  /\ exam_json' = TruncatedFile
  /\ fetch_log' = Append(fetch_log, [link |-> question_links[i], page |-> page,
                                     kind |-> "killed"])
  /\ UNCHANGED <<question_links, force_update, rapid_scraping, loaded_questions,
                 questions, i, error_string, updated_count, new_count,
                 skipped_count, pre_exam_json, sleeps, prev_pages>>
  /\ UNCHANGED outside_sync

\* the script is started again
Restart ==
  /\ pc = "killed"
  /\ pc' = "idle"
  /\ question_links' = <<>>
  /\ force_update' = FALSE
  /\ rapid_scraping' = FALSE
  /\ loaded_questions' = <<>>
  /\ questions' = <<>>
  /\ i' = 1
  /\ error_string' = ""
  /\ updated_count' = 0
  /\ new_count' = 0
  /\ skipped_count' = 0
  /\ fetch_log' = <<>>
  /\ sleeps' = <<>>
  /\ prev_pages' = <<>>
  /\ pre_exam_json' = exam_json
  /\ UNCHANGED exam_json
  /\ UNCHANGED outside_sync

CrashNext ==
  \/ Next
  \/ Kill
  \/ \E page \in DOMAIN PageFields \cup {NoResponse} : KilledInSaveJson(page)
  \/ Restart

SpecCrash == Init /\ [][CrashNext]_vars

(***************************************************************************)
(* The chunk creation on its own, run after run                            *)
(***************************************************************************)
\* what an earlier run over two questions with chunk_size 1 left behind
EarlierChunks ==
  [id \in ChunkIds |-> IF id < 2 THEN ChunkData(<<1, 2>>, id, 1) ELSE NoChunk]

EarlierMetadata == Metadata(1, 2, 2, <<0, 1>>)

\* one call on any list and chunk size, in a fresh directory or in one that
\* holds the chunks of an earlier run
PartitionInit ==
  /\ SyncInit
  /\ NoCall
  /\ DiscoverInit
  /\ result = NoResult
  /\ PageInit
  /\ ManifestInit
  /\ \/ chunks_dir = [id \in ChunkIds |-> NoChunk] /\ metadata_json = NoMetadata
     \/ chunks_dir = EarlierChunks /\ metadata_json = EarlierMetadata
  /\ pre_chunks_dir = chunks_dir
  /\ pre_metadata_json = metadata_json
  /\ cpc = "idle"
  /\ chunk_input \in QuestionLists
  /\ chunk_size \in 1..MaxChunkSize
  /\ total_chunks = 0
  /\ chunk_id = 0
  /\ created_chunks = <<>>
  /\ chunk_return = ""
  /\ write_log = <<>>

PartitionCall == CreateChunksForExamData(chunk_input, chunk_size)

PartitionNext ==
  \/ PartitionCall
  \/ \E outcome \in WriteOutcomes : WriteChunk(outcome)
  \/ \E outcome \in WriteOutcomes : WriteMetadata(outcome)

SpecPartition == PartitionInit /\ [][PartitionNext]_vars

\* every write succeeds
ChunkNext ==
  \/ \E qs \in QuestionLists, size \in 1..MaxChunkSize : CreateChunksForExamData(qs, size)
  \/ WriteChunk("written")
  \/ WriteMetadata("written")
  \/ ChunkReturn

SpecChunks == Init /\ [][ChunkNext]_vars

(***************************************************************************)
(* create_chunks.py run on the exam.json the synchronisation keeps         *)
(***************************************************************************)
\* create_chunks_for_exam(exam_code, chunk_size, force), the user answering
\* the prompt "Overwrite existing chunks? (y/N)" with answer
CreateChunksForExam(size, force, answer) ==
  /\ pc = "idle"
  /\ LET readable == exam_json.exists /\ exam_json # TruncatedFile
         qs == IF readable THEN exam_json.questions ELSE <<>>
         existing_chunks ==
           {id \in ChunkIds : id < Ceil(Len(qs), size) /\ chunks_dir[id].exists}
         declined ==
           /\ Len(qs) > size
           /\ ~force
           /\ existing_chunks # {}
           /\ answer # "y"
     IN IF readable /\ ~declined
        THEN ChunkStart(qs, size)
        ELSE /\ cpc = "idle"
             /\ cpc' = "done"
             /\ chunk_return' = "False"
             /\ chunk_input' = qs
             /\ chunk_size' = size
             /\ total_chunks' = IF declined THEN Ceil(Len(qs), size) ELSE 0
             /\ chunk_id' = 0
             /\ created_chunks' = <<>>
             /\ write_log' = <<>>
             /\ pre_chunks_dir' = chunks_dir
             /\ pre_metadata_json' = metadata_json
             /\ UNCHANGED <<chunks_dir, metadata_json>>
  /\ UNCHANGED outside_chunks

\* an update of the exam while no chunk creation is running
SyncRun(links, force) ==
  /\ cpc = "idle"
  /\ FirstRun(links, FALSE, force)

\* the updates (without force_update) and the chunk creations of one exam, one
\* after the other, every write succeeding
SyncChunksNext ==
  \/ \E links \in LinkLists : SyncRun(links, FALSE)
  \/ \E page \in DOMAIN PageFields \cup {NoResponse} : CheckExisting(page)
  \/ \E page \in DOMAIN PageFields \cup {NoResponse} : ScrapeNew(page)
  \/ Return
  \/ \E size \in 1..MaxChunkSize, force \in BOOLEAN, answer \in {"y", "n"} :
       CreateChunksForExam(size, force, answer)
  \/ WriteChunk("written")
  \/ WriteMetadata("written")
  \/ ChunkReturn

SpecSyncChunks == Init /\ [][SyncChunksNext]_vars

(***************************************************************************)
(* One call of scrape_page on any page                                     *)
(***************************************************************************)
PageCallInit ==
  /\ SyncInit
  /\ NoCall
  /\ DiscoverInit
  /\ result = NoResult
  /\ ChunkInit
  /\ ManifestInit
  /\ soup \in Soups
  /\ spc = "idle"
  /\ scraped_object = NoScrapedObject
  /\ tiers = <<>>

PageNext ==
  \/ ScrapePageFails
  \/ ScrapePageRaises
  \/ ScrapePageReturns

SpecPage == PageCallInit /\ [][PageNext]_vars

(***************************************************************************)
(* One run of update_manifest.py                                           *)
(***************************************************************************)
\* any data directory, with the manifest and the backup of earlier runs or
\* without
ManifestRunInit ==
  /\ SyncInit
  /\ NoCall
  /\ DiscoverInit
  /\ result = NoResult
  /\ ChunkInit
  /\ PageInit
  /\ data_exists \in BOOLEAN
  /\ data_dir \in [ExamCodes -> ExamDirs]
  /\ ~data_exists => \A code \in ExamCodes : data_dir[code].kind = "absent"
  /\ manifest_json \in {NoManifestFile, ManifestFile(EarlierManifest)}
  /\ ~data_exists => manifest_json = NoManifestFile
  /\ manifest_json_backup \in {NoManifestFile, ManifestFile(OlderManifest)}
  /\ manifest_json.state = "absent" => manifest_json_backup = NoManifestFile
  /\ pre_manifest_json = manifest_json
  /\ mpc = "idle"
  /\ NoGeneration

ManifestNext ==
  \/ GenerateFails
  \/ GenerateStart
  \/ \E item \in ExamCodes : ScanItem(item)
  \/ GenerateReturn
  \/ \E outcome \in SaveOutcomes : Backup(outcome)
  \/ \E outcome \in SaveOutcomes : WriteManifest(outcome)

SpecManifest == ManifestRunInit /\ [][ManifestNext]_vars

(***************************************************************************)
(* Properties of the change detector                                       *)
(***************************************************************************)
Called == update_needed # <<>>

\* the two answer lists differ as ordered sequences
AnswersDiffer(e, n) ==
  \/ Len(e.answers) # Len(n.answers)
  \/ \E k \in DOMAIN e.answers : e.answers[k] # n.answers[k]

\* the five cases of the detector, in the order of the specification
Rules(e, n) ==
  << e.most_voted = NoneVal /\ n.most_voted # NoneVal,
     e.most_voted # n.most_voted,
     e.question # n.question,
     AnswersDiffer(e, n),
     CalculateQuestionHash(e) # CalculateQuestionHash(n) >>

Reasons ==
  << "most_voted was null, now has value", "most_voted changed",
     "question content changed", "answers changed", "content hash changed" >>

\* the cases that are true with no earlier case true
FirstTrue(e, n) ==
  {k \in 1..5 : Rules(e, n)[k] /\ \A j \in 1..(k - 1) : ~Rules(e, n)[j]}

\* C9: needs_update answers with the reason of the first of the five cases that
\* is true, in the order 1 answer newly available, 2 answer changed, 3 body
\* changed, 4 options changed, 5 hash changed, and with "no change" when none is.
C9_FirstRuleWins ==
  Called =>
    IF FirstTrue(existing_question, new_question) = {}
    THEN update_needed = <<FALSE, "no changes detected">>
    ELSE \A k \in FirstTrue(existing_question, new_question) :
           update_needed = <<TRUE, Reasons[k]>>

\* an existing question without most_voted and a fresh one with "B", which also
\* differ in the body: the answer is the reason of case 1
C9_Witness ==
  /\ Called
  /\ existing_question.most_voted = NoneVal
  /\ new_question.most_voted = "B"
  /\ existing_question.question # new_question.question
  /\ update_needed = <<TRUE, "most_voted was null, now has value">>

SameRelevant(e, n) ==
  /\ e.question = n.question
  /\ e.answers = n.answers
  /\ e.most_voted = n.most_voted

\* C10: two questions that agree on question, answers and most_voted have the
\* same hash and are classified unchanged, whatever their comments, link,
\* images and error; and only such pairs are classified unchanged.
C10_HashOfThreeFields ==
  Called =>
    /\ SameRelevant(existing_question, new_question) =>
         /\ CalculateQuestionHash(existing_question) = CalculateQuestionHash(new_question)
         /\ update_needed = <<FALSE, "no changes detected">>
    /\ ~update_needed[1] => SameRelevant(existing_question, new_question)

\* a pair classified unchanged that differs in all four fields the hash leaves out
C10_Witness ==
  /\ Called
  /\ ~update_needed[1]
  /\ existing_question.comments # new_question.comments
  /\ existing_question.link # new_question.link
  /\ existing_question.images # new_question.images
  /\ existing_question.error # new_question.error

(***************************************************************************)
(* Properties of the reconciliation loop                                   *)
(***************************************************************************)
Done == pc = "done"

\* the questions in exam.json now, and when the run started
Persisted == exam_json.questions
Pre == LoadQuestions(pre_exam_json)

Range(s) == {s[k] : k \in DOMAIN s}

\* what the j-th scrape_page call of the run returned
Fetched(j) == ScrapePage(fetch_log[j].link, fetch_log[j].page)

\* the run hit a failed scrape
Failed == fetch_log # <<>> /\ fetch_log[Len(fetch_log)].kind = "error"

\* the j-th scrape put its result into the list
Applied(j) == fetch_log[j].kind \in {"new", "updated", "replaced"}

\* the questions of s with number n, in order
WithNumber(s, n) == SelectSeq(s, LAMBDA q : q.question_number = n)

\* After a run that failed at position p: the persisted list is the stored one
\* with results of positions before p merged in, and the questions of the
\* links from p on are as they were.
PrefixMerged ==
  LET p == Len(fetch_log)
      before == 1..(p - 1)
  IN /\ Range(Persisted) \subseteq Range(Pre) \cup {Fetched(j) : j \in before}
     /\ \A j \in before : fetch_log[j].kind = "new" => Fetched(j) \in Range(Persisted)
     /\ Len(Persisted) =
          Len(Pre) + Cardinality({j \in before : fetch_log[j].kind = "new"})
     /\ \A j \in p..Len(question_links) :
          (\A k \in before : question_links[k] # question_links[j]) =>
            WithNumber(Persisted, QuestionNumber(question_links[j]))
              = WithNumber(Pre, QuestionNumber(question_links[j]))

\* C1: when the scrape at position p fails, the persisted collection holds the
\* stored questions with exactly the results of positions before p merged in,
\* the stored questions of later positions are as before, and the persisted
\* status is not "complete".
C1_FailFastKeepsPrefix ==
  (Done /\ Failed) => (PrefixMerged /\ exam_json.status # "complete")

C3_CompleteIffCountAndNoError ==
  Done =>
    (exam_json.status = "complete"
       <=> (Len(Persisted) = Len(question_links) /\ exam_json.error = ""))

\* C4: when the persisted status is "complete", every link of the run has a
\* persisted question with its number and without error.
C4_CompleteCoversLinks ==
  (Done /\ exam_json.status = "complete") =>
    \A j \in DOMAIN question_links :
      \E k \in DOMAIN Persisted :
        /\ Persisted[k].question_number = QuestionNumber(question_links[j])
        /\ Persisted[k].error = NoneVal

\* C5: no question with an error is ever persisted; after a run every question
\* stored before it is still there unless a successful scrape of its number
\* replaced it, the list is no shorter, and a run without a successful merge
\* leaves the list as it was.
C5_FailureKeepsStoredData ==
  /\ \A k \in DOMAIN Persisted : Persisted[k].error = NoneVal
  /\ Done =>
       /\ Len(Persisted) >= Len(Pre)
       /\ \A k \in DOMAIN Pre :
            \/ Pre[k] \in Range(Persisted)
            \/ \E j \in DOMAIN fetch_log :
                 /\ fetch_log[j].kind \in {"updated", "replaced"}
                 /\ QuestionNumber(fetch_log[j].link) = Pre[k].question_number
       /\ \A n \in QuestionNumbers :
            Len(WithNumber(Persisted, n)) >= Len(WithNumber(Pre, n))
       /\ (\A j \in DOMAIN fetch_log : ~Applied(j)) => Persisted = Pre

\* a run over stored questions that updated one and then failed
C5_Witness ==
  /\ Done
  /\ Failed
  /\ Len(fetch_log) = 2
  /\ fetch_log[1].kind = "updated"
  /\ Len(Pre) = 2
  /\ Persisted # Pre

\* the previous run ended without error and this run, without force_update,
\* got for every link the page the previous run got; every link of a number
\* got the same page
RepeatedRun ==
  /\ Done
  /\ prev_pages # <<>>
  /\ \A j, k \in DOMAIN prev_pages :
       question_links[j] = question_links[k] => prev_pages[j] = prev_pages[k]

\* C6: a run that repeats the previous one with nothing changed remotely leaves
\* exam.json as it was, classifies every question unchanged, adds and updates
\* nothing and ends without error.
C6_SecondRunChangesNothing ==
  RepeatedRun =>
    /\ exam_json = pre_exam_json
    /\ \A j \in DOMAIN fetch_log : fetch_log[j].kind = "skipped"
    /\ updated_count = 0
    /\ new_count = 0
    /\ skipped_count = Len(question_links)
    /\ exam_json.error = ""

\* C7: no two persisted questions have the same question number.
C7_UniqueQuestionNumbers ==
  \A j, k \in DOMAIN Persisted :
    j # k => Persisted[j].question_number # Persisted[k].question_number

\* the effect of one loop iteration on the list: what the step leaves in
\* questions, or in exam.json when it was the last step of the run
MergedTo(qs) ==
  IF pc' = "done"
  THEN exam_json'.questions = SortQuestions(qs)
  ELSE questions' = qs

IterationReconciles ==
  LET link == question_links[i]
      n == QuestionNumber(link)
      entry == fetch_log'[Len(fetch_log')]
      fetched == ScrapePage(link, entry.page)
      stored == {k \in DOMAIN Pre : Pre[k].question_number = n}
  IN /\ Len(fetch_log') = Len(fetch_log) + 1
     /\ entry.link = link
     /\ fetched.error = NoneVal =>
          IF stored = {}
          THEN MergedTo(Append(questions, fetched))
          ELSE LET compared == Pre[CHOOSE k \in stored : \A m \in stored : m <= k]
                   place == CHOOSE k \in DOMAIN questions :
                              /\ questions[k].question_number = n
                              /\ \A m \in 1..(k - 1) : questions[m].question_number # n
                   replaced == [questions EXCEPT ![place] = fetched]
               IN IF force_update \/ ~SameRelevant(compared, fetched)
                  THEN MergedTo(replaced)
                  ELSE MergedTo(questions)

C13_SleepBetweenFetchesOnly ==
  Done =>
    sleeps = IF rapid_scraping
             THEN <<>>
             ELSE [j \in 1..(Len(fetch_log) - 1) |-> j]

\* the persisted questions are in ascending order of their sort key
Ascending(qs) ==
  \A j, k \in DOMAIN qs : j < k => SortKey(qs[j]) <= SortKey(qs[k])

\* C14: whenever exam.json has been written by a run, ended normally or on a
\* failed scrape, its questions are in ascending order of question number, a
\* number that is not all digits counting as larger than every number.
C14_PersistedSorted ==
  /\ exam_json.exists => Ascending(Persisted)
  /\ Done => Persisted = questions

\* a run that appended question 1 behind a stored question 2 and failed on its
\* second link: question 1 is persisted in front
C14_Witness ==
  /\ Done
  /\ Failed
  /\ Len(Pre) >= 1
  /\ Pre[1].question_number = 2
  /\ fetch_log[1].kind = "new"
  /\ Persisted[1].question_number = 1
  /\ Persisted[Len(Persisted)].question_number = 2

(***************************************************************************)
(* Properties of the link discovery                                        *)
(***************************************************************************)
\* the previous call was interrupted after it had requested k >= 1 pages, and
\* this call, without force_rescan, has requested a page
Resumed ==
  /\ interrupted_after >= 1
  /\ interrupted_after < num_pages
  /\ ~force_rescan
  /\ scan_log # <<>>

\* C15: a call that follows one interrupted after page k, without force_rescan,
\* requests the pages k+1, k+2, ... and no page the interrupted call had
\* requested.
C15_ResumesAfterLastPage ==
  Resumed =>
    \A j \in DOMAIN scan_log : scan_log[j].page = interrupted_after + j

StrictlyAscending(s) == \A j, k \in DOMAIN s : j < k => s[j] < s[k]

\* C17: the links in links.json, and the links a call returns, are in strictly
\* ascending order of their numbers: sorted, and no number twice.
C17_LinksStrictlySorted ==
  /\ StrictlyAscending(links_json.links)
  /\ dpc = "returned" => StrictlyAscending(links_returned)

\* how often number n occurs in a list of links, and on the pages the call got
Occurrences(s, n) == Cardinality({j \in DOMAIN s : s[j] = n})

ListedOnPages(n) ==
  Cardinality({e \in {<<j, k>> : j \in DOMAIN scan_log, k \in 1..MaxLinks} :
                 /\ scan_log[e[1]].ok
                 /\ e[2] \in DOMAIN scan_log[e[1]].listed
                 /\ scan_log[e[1]].listed[e[2]] = n})

\* C16: links.json changes only in the step that ends the sweep of the last
\* page; while a call is scanning, after it was interrupted and after it
\* raised, links.json is the file the call found.
C16_LinksFileWrittenAtEndOnly ==
  /\ [](dpc # "returned" => links_json = pre_links_json)
  /\ [][links_json' # links_json =>
          (dpc = "scan" /\ page_i = num_pages /\ dpc' = "returned")]_vars

\* a forced rescan of an exam with a links.json was interrupted after a page
C16_Witness ==
  /\ dpc = "idle"
  /\ interrupted_after >= 1
  /\ links_json.exists
  /\ links_json.links # <<>>

\* C18: a failed page request is followed by the request of the next page; the
\* sweep ends after page num_pages with links.json complete, holding in
\* ascending order exactly the links of the pages that were answered; a forced
\* rescan starts at page 1, so that it collects every link when every page is
\* answered.
C18_FailedPageSkipped ==
  /\ \A j \in DOMAIN scan_log : scan_log[j].page = scan_log[1].page + j - 1
  /\ (dpc = "scan" /\ scan_log # <<>>) => page_i = scan_log[Len(scan_log)].page + 1
  /\ (dpc = "returned" /\ scan_log # <<>>) =>
       /\ scan_log[Len(scan_log)].page = num_pages
       /\ force_rescan => scan_log[1].page = 1
       /\ links_json.exists
       /\ links_json.status = "complete"
       /\ links_json.links = links_returned
       /\ \A j \in 1..(Len(links_returned) - 1) : links_returned[j] <= links_returned[j + 1]
       /\ \A n \in QuestionNumbers : Occurrences(links_returned, n) = ListedOnPages(n)

\* a sweep of two pages: the request of page 1 failed, page 2 listed a link,
\* and links.json is complete with that link only
C18_Witness ==
  /\ dpc = "returned"
  /\ Len(scan_log) = 2
  /\ ~scan_log[1].ok
  /\ scan_log[2].ok
  /\ scan_log[2].listed # <<>>
  /\ links_json.links = scan_log[2].listed

\* C19: a call without force_rescan that finds links.json complete returns the
\* links of the file and leaves the file as it is.
C19_CompleteLinksReturned ==
  (/\ dpc \in {"returned", "raised"}
   /\ ~force_rescan
   /\ pre_links_json.exists
   /\ pre_links_json.status = "complete")
  => /\ dpc = "returned"
     /\ links_returned = pre_links_json.links
     /\ links_json = pre_links_json

(***************************************************************************)
(* Properties of the reported result                                       *)
(***************************************************************************)
Reported == result # NoResult

C12_NoLinksNoScrape ==
  (Reported /\ (exception # "" \/ links_returned = <<>>)) =>
    /\ result.status = "failed"
    /\ result.question_count = 0
    /\ pc = "idle"
    /\ fetch_log = <<>>
    /\ exam_json = pre_exam_json

\* an exam with stored questions whose rescan found no link
C12_Witness ==
  /\ Reported
  /\ exception = ""
  /\ links_returned = <<>>
  /\ exam_json.exists
  /\ exam_json.status = "complete"
  /\ exam_json.questions # <<>>
  /\ result.status = "failed"

\* C29: when the result reported for the exam is "success", the exam.json the
\* run saved has status "complete".
C29_SuccessMeansComplete ==
  (Reported /\ result.status = "success") => exam_json.status = "complete"

(***************************************************************************)
(* Properties of a stopped run                                             *)
(***************************************************************************)
\* C20: after the process was stopped exam.json is the file the run found,
\* and exam.json is never a file that was opened for writing and not written
\* out, which the next run would load as an empty list of questions.
C20_SaveAllOrNothing ==
  /\ pc = "killed" => exam_json = pre_exam_json
  /\ exam_json # TruncatedFile

(***************************************************************************)
(* Properties of the chunk creation                                        *)
(***************************************************************************)
\* the call has returned
ChunksDone == cpc = "done"

\* the call did partition: the questions did not fit in one chunk
Partitioned == ChunksDone /\ Len(chunk_input) > chunk_size

\* the least k with k * size >= n
LeastCover(n, size) ==
  CHOOSE k \in 0..n : k * size >= n /\ \A m \in 0..(k - 1) : m * size < n

\* the ids whose write succeeded in this run, in the order of the writes
WrittenIds ==
  LET ok == SelectSeq(write_log, LAMBDA e : e.ok)
  IN [j \in 1..Len(ok) |-> ok[j].chunk_id]

AllWritten == \A j \in DOMAIN write_log : write_log[j].ok

\* the questions of the chunk files 0..(k-1), one after the other
RECURSIVE Concatenated(_)
Concatenated(k) ==
  IF k = 0 THEN <<>> ELSE Concatenated(k - 1) \o chunks_dir[k - 1].questions

\* C21: a call on N questions with chunk_size S < N makes the least number of
\* chunks of S that cover N, every chunk but the last of S questions and the
\* last of the rest, and the chunk files written, taken in the order of their
\* ids, give the list back as it was handed in; a call with N <= S writes
\* nothing.
C21_PartitionCoversInOrder ==
  /\ Partitioned =>
       /\ total_chunks = LeastCover(Len(chunk_input), chunk_size)
       /\ \A j \in DOMAIN WrittenIds :
            Len(chunks_dir[WrittenIds[j]].questions) =
              IF WrittenIds[j] < total_chunks - 1
              THEN chunk_size
              ELSE Len(chunk_input) - chunk_size * (total_chunks - 1)
       /\ AllWritten =>
            /\ Concatenated(total_chunks) = chunk_input
            /\ created_chunks = [j \in 1..total_chunks |-> j - 1]
  /\ (ChunksDone /\ Len(chunk_input) <= chunk_size) =>
       /\ write_log = <<>>
       /\ chunks_dir = pre_chunks_dir
       /\ metadata_json = pre_metadata_json
       /\ chunk_return = "False"

\* three questions in descending order, chunk_size 2: chunks of 2 and 1
C21_Witness ==
  /\ Partitioned
  /\ AllWritten
  /\ chunk_input = <<3, 2, 1>>
  /\ chunk_size = 2
  /\ total_chunks = 2
  /\ chunks_dir[0].questions = <<3, 2>>
  /\ chunks_dir[1].questions = <<1>>

\* C22: chunk i as written is tagged with its id, start_question i*S+1,
\* end_question min((i+1)*S, N) and questions_count = end - start + 1 = the
\* number of its questions, and the question at position n of the list is in
\* chunk (n-1) div S at offset (n-1) mod S.
C22_ChunkTags ==
  Partitioned =>
    /\ \A j \in DOMAIN WrittenIds :
         LET id == WrittenIds[j]
             chunk == chunks_dir[id]
             upto == IF (id + 1) * chunk_size < Len(chunk_input)
                     THEN (id + 1) * chunk_size ELSE Len(chunk_input)
         IN /\ chunk.chunk_id = id
            /\ chunk.start_question = id * chunk_size + 1
            /\ chunk.end_question = upto
            /\ chunk.questions_count = chunk.end_question - chunk.start_question + 1
            /\ chunk.questions_count = Len(chunk.questions)
    /\ \A n \in DOMAIN chunk_input :
         LET id == (n - 1) \div chunk_size
         IN (\E j \in DOMAIN WrittenIds : WrittenIds[j] = id) =>
              chunks_dir[id].questions[((n - 1) % chunk_size) + 1] = chunk_input[n]

\* four questions, chunk_size 3: question 4 is the only one of chunk 1
C22_Witness ==
  /\ Partitioned
  /\ AllWritten
  /\ Len(chunk_input) = 4
  /\ chunk_size = 3
  /\ chunks_dir[1].start_question = 4
  /\ chunks_dir[1].end_question = 4
  /\ chunks_dir[1].questions = <<chunk_input[4]>>

\* C23: a failed write does not end the loop: every id below total_chunks is
\* written to, in order, and created_chunks, as it is put into the metadata,
\* lists in ascending order the ids whose write succeeded.
C23_FailedChunkSkipped ==
  (cpc \in {"metadata", "done"} /\ Len(chunk_input) > chunk_size) =>
    /\ Len(write_log) = total_chunks
    /\ \A j \in DOMAIN write_log : write_log[j].chunk_id = j - 1
    /\ created_chunks = WrittenIds
    /\ \A j \in 1..(Len(created_chunks) - 1) : created_chunks[j] < created_chunks[j + 1]
    /\ chunk_return = "created" => metadata_json.created_chunks = WrittenIds

\* the write of chunk 0 failed, chunk 1 was written and the metadata names it
C23_Witness ==
  /\ ChunksDone
  /\ Len(write_log) >= 2
  /\ ~write_log[1].ok
  /\ write_log[2].ok
  /\ chunk_return = "created"
  /\ metadata_json.created_chunks[1] = 1

\* C24: a metadata file the run wrote holds the chunk_size, the number of
\* questions and the created chunks of this run and nothing else, its
\* total_chunks is the least number of chunks that cover the questions, and
\* its created_chunks is the full range exactly when every chunk write of the
\* run succeeded.
C24_MetadataOfThisRun ==
  (ChunksDone /\ chunk_return = "created") =>
    /\ metadata_json =
         [exists |-> TRUE, readable |-> TRUE, chunked |-> TRUE,
          chunk_size |-> chunk_size,
          total_chunks |-> LeastCover(Len(chunk_input), chunk_size),
          total_questions |-> Len(chunk_input),
          created_chunks |-> WrittenIds]
    /\ (metadata_json.created_chunks = [j \in 1..metadata_json.total_chunks |-> j - 1])
         <=> AllWritten

\* a run in a directory with the metadata of an earlier run, one of whose
\* chunk writes failed
C24_Witness ==
  /\ ChunksDone
  /\ chunk_return = "created"
  /\ pre_metadata_json = EarlierMetadata
  /\ metadata_json # pre_metadata_json
  /\ ~AllWritten
  /\ Len(metadata_json.created_chunks) < metadata_json.total_chunks

\* the ids of the chunk files in the chunks directory
ChunkFiles == {id \in ChunkIds : chunks_dir[id].exists}

\* C30: whenever a chunk creation has returned and there is a metadata file,
\* the chunk files in the directory are those with the ids below the
\* total_chunks of the metadata, so that validate_migration counts as many
\* files as the metadata expects.
C30_ChunkFilesMatchMetadata ==
  (ChunksDone /\ metadata_json.exists) =>
    /\ ChunkFiles = {id \in ChunkIds : id < metadata_json.total_chunks}
    /\ Cardinality(ChunkFiles) = metadata_json.total_chunks

\* C25: after a run of scrape_questions, a metadata file that exists tells the
\* number of questions in exam.json, and the chunk files it counts hold,
\* one after the other, the questions of exam.json.
C25_ChunksFollowSync ==
  (Done /\ metadata_json.exists) =>
    /\ metadata_json.total_questions = Len(Persisted)
    /\ Concatenated(metadata_json.total_chunks) = Persisted

(***************************************************************************)
(* Properties of scrape_page                                               *)
(***************************************************************************)
\* what each tier of the answer resolution yields on a page: the answers of
\* the options flagged as the majority choice, the answers of the options with
\* the highest vote count if that count is above 0, the suggested answer
Tier1(s) ==
  {s.voted_json[k].voted_answers : k \in {j \in DOMAIN s.voted_json :
      s.voted_json[j].is_most_voted}} \ {NoneVal}

Tier2(s) ==
  {s.voted_json[k].voted_answers : k \in {j \in DOMAIN s.voted_json :
      /\ s.voted_json[j].vote_count > 0
      /\ \A l \in DOMAIN s.voted_json :
           s.voted_json[l].vote_count <= s.voted_json[j].vote_count}} \ {NoneVal}

Tier3(s) == {s.suggested_answer} \ {NoneVal}

Tier(k, s) == IF k = 1 THEN Tier1(s) ELSE IF k = 2 THEN Tier2(s) ELSE Tier3(s)

\* the answers the strict priority allows: those of the first tier that yields
\* one, none (tier 4) when no tier does
Resolved(s) ==
  IF Tier1(s) # {} THEN Tier1(s)
  ELSE IF Tier2(s) # {} THEN Tier2(s)
  ELSE IF Tier3(s) # {} THEN Tier3(s)
  ELSE {NoneVal}

\* C28: scrape_page never raises; for a page that could not be fetched or
\* parsed it returns a dict with error set; otherwise it returns the other
\* fields as extracted, whatever happened to the tally, and most_voted is the
\* answer of the first tier that yields one (flagged option, option with the
\* highest vote count above 0, suggested answer, else none), a tier being
\* consulted only when every higher tier yields nothing.
C28_AnswerResolution ==
  /\ spc # "raised"
  /\ (spc = "returned" /\ soup.response = "none") =>
       /\ scraped_object.error # NoneVal
       /\ scraped_object.most_voted = NoneVal
  /\ (spc = "returned" /\ soup.response = "ok") =>
       /\ scraped_object.error = NoneVal
       /\ scraped_object.question = "Q"
       /\ scraped_object.answers = <<"a", "b">>
       /\ scraped_object.comments = <<"c1">>
       /\ scraped_object.most_voted \in Resolved(soup)
       /\ \A k \in DOMAIN tiers : \A h \in 1..(tiers[k] - 1) : Tier(h, soup) = {}

(***************************************************************************)
(* Properties of the manifest                                              *)
(***************************************************************************)
Generated == mpc \in {"generated", "backed up", "saved", "failed", "interrupted"}

\* the exams with a readable exam.json that holds at least one question
Listable ==
  {code \in ExamCodes : data_dir[code].kind = "readable" /\ data_dir[code].count >= 1}

\* C26: the manifest generate_manifest returns, whatever the data directory
\* holds and whatever manifest.json held, has totalExams equal to the number
\* of its entries and totalQuestions equal to the sum of their questionCount;
\* it has exactly one entry for each exam directory whose exam.json is
\* readable and holds at least one question, and none for the others; each
\* questionCount is the number of questions in that exam.json; the entries
\* are in ascending order of the exam code.
C26_ManifestOfTheDirectories ==
  Generated =>
    /\ manifest.totalExams = Len(manifest.exams)
    /\ manifest.totalQuestions = SumQuestionCount(manifest.exams)
    /\ {manifest.exams[k].code : k \in DOMAIN manifest.exams} = Listable
    /\ Len(manifest.exams) = Cardinality(Listable)
    /\ \A k \in DOMAIN manifest.exams :
         manifest.exams[k].questionCount = data_dir[manifest.exams[k].code].count
    /\ \A j, k \in DOMAIN manifest.exams :
         j < k => manifest.exams[j].code < manifest.exams[k].code
    /\ manifest.totalQuestions =
         SumQuestionCount([k \in 1..MaxExams |->
           [questionCount |-> IF k \in Listable THEN data_dir[k].count ELSE 0]])

\* a manifest over an earlier one that listed other exams, of a data directory
\* with an exam that has questions and one whose exam.json is empty or
\* unreadable
C26_Witness ==
  /\ Generated
  /\ pre_manifest_json = ManifestFile(EarlierManifest)
  /\ manifest # EarlierManifest
  /\ manifest.totalExams >= 1
  /\ \E code \in ExamCodes :
       \/ data_dir[code].kind = "corrupt"
       \/ data_dir[code].kind = "readable" /\ data_dir[code].count = 0

\* C27: when manifest.json exists as the save starts, the backup is made by
\* copying before manifest.json is opened for writing: once the backup is
\* made, both files hold the previous manifest; at every step of the save,
\* also when the copy or the write is stopped half way, manifest.json or the
\* backup still holds the complete previous manifest; and after the save the
\* backup holds the manifest as it was before the save.
C27_BackupBeforeOverwrite ==
  pre_manifest_json.state = "complete" =>
    /\ manifest_json = pre_manifest_json \/ manifest_json_backup = pre_manifest_json
    /\ mpc = "backed up" =>
         manifest_json = pre_manifest_json /\ manifest_json_backup = pre_manifest_json
    /\ mpc = "saved" =>
         /\ manifest_json_backup = pre_manifest_json
         /\ manifest_json = ManifestFile(manifest)

\* the process was stopped while the new manifest was written: manifest.json
\* is cut off, the backup holds the previous manifest, which replaced an
\* older backup
C27_Witness ==
  /\ mpc = "interrupted"
  /\ pre_manifest_json = ManifestFile(EarlierManifest)
  /\ manifest_json = CutOffManifestFile
  /\ manifest_json_backup = pre_manifest_json

=============================================================================
